---------------------------- MODULE Spec2Model ----------------------------
(***************************************************************************)
(* A model of rubigo's helpers (src/src/inner/helpers.rs): the path        *)
(* mapper, the interactive version prompt, the golang.org/x vanity import  *)
(* resolver and the lock reconciler with its directory pruning.            *)
(*                                                                         *)
(* Strings are sequences of one-character strings, so that splitting,      *)
(* trimming, lowercasing, parsing and pattern matching are computed and    *)
(* not assumed.  A few literals the code only ever treats as a whole       *)
(* ("vendor", "go-import", " git ", "golang.org/x", "http://") are single  *)
(* symbols of that alphabet.                                                *)
(***************************************************************************)
EXTENDS Integers, Sequences, FiniteSets, TLC

VARIABLES
    pc,           \* "call f" before operation f has run, "f" after it
    pkg_import,   \* get_path_from_url: its argument
    pkg_path_buf, \* get_path_from_url: the PathBuf it returns (a string)
    repo,         \* version_prompt: what git_helper reports of the repository
    stdin,        \* version_prompt: the outcome the next read_line will have
    versions,     \* version_prompt: the menu it built
    reads,        \* version_prompt: how many times get_input was called
    selection,    \* version_prompt: its return value
    repo_url,     \* modify_golang_org: its argument
    net,          \* modify_golang_org: how the HTTP client will behave
    requests,     \* modify_golang_org: how many transfers were performed
    resolved,     \* modify_golang_org: its return value
    fs,           \* the directory tree on disk
    log,          \* the logger's output, one record per remove_package call
    old_lock,     \* remove_diff_packages: the previous lock snapshot
    new_lock,     \* remove_diff_packages: the new lock snapshot
    reordered     \* the trees remove_diff_packages leaves when the entries of
                  \* old_lock are listed in each other order

vars == <<pc, pkg_import, pkg_path_buf, repo, stdin, versions, reads, selection,
          repo_url, net, requests, resolved, fs, log, old_lock, new_lock,
          reordered>>

pathVars == <<pkg_import, pkg_path_buf>>
promptVars == <<repo, stdin, versions, reads, selection>>
golangVars == <<repo_url, net, requests, resolved>>
diskVars == <<fs, log, old_lock, new_lock, reordered>>

\* Option: None, or Some(x) holding x.
None == <<>>

Some(x) == <<x>>

Unwrap(o) == o[1]

(***************************************************************************)
(* Strings.                                                                *)
(***************************************************************************)

\* All sequences over S of length at most n.
RECURSIVE SeqsUpTo(_, _)
SeqsUpTo(S, n) ==
    IF n = 0 THEN {<<>>}
    ELSE LET shorter == SeqsUpTo(S, n - 1)
         IN  shorter \cup {Append(s, c) : s \in shorter, c \in S}

\* str::split("/"): the pieces between separators, empty pieces included;
\* a string with k separators gives k + 1 pieces.
RECURSIVE SplitFrom(_, _, _)
SplitFrom(s, i, cur) ==
    IF i > Len(s) THEN <<cur>>
    ELSE IF s[i] = "/" THEN <<cur>> \o SplitFrom(s, i + 1, <<>>)
    ELSE SplitFrom(s, i + 1, Append(cur, s[i]))

Split(s) == SplitFrom(s, 1, <<>>)

(***************************************************************************)
(* Path Mapper.                                                            *)
(***************************************************************************)

\* inner::vendor::VENDOR_DIR, the relative directory "vendor".
VENDOR_DIR == <<"vendor">>

\* PathBuf::push of a relative piece: a separator is added unless the buffer
\* already ends in one, then the piece.
PathBufPush(buf, segment) ==
    IF Len(buf) > 0 /\ buf[Len(buf)] # "/"
    THEN buf \o <<"/">> \o segment
    ELSE buf \o segment

RECURSIVE PushAll(_, _)
PushAll(buf, segments) ==
    IF segments = <<>> THEN buf
    ELSE PushAll(PathBufPush(buf, Head(segments)), Tail(segments))

get_path_from_url(import) == PushAll(VENDOR_DIR, Split(import))

\* Path::components of a relative path: the pieces between separators, with
\* empty pieces and "." pieces (other than a leading one) left out; ".." is
\* kept as a component.
RECURSIVE NormalPieces(_, _)
NormalPieces(pieces, first) ==
    IF pieces = <<>> THEN <<>>
    ELSE LET p == Head(pieces)
             rest == NormalPieces(Tail(pieces), FALSE)
         IN  IF p = <<>> \/ (p = <<".">> /\ ~first) THEN rest
             ELSE <<p>> \o rest

Components(path) == NormalPieces(Split(path), TRUE)

\* Where a component list leads, counted in levels below its first
\* component; -1 as soon as a ".." climbs above it.
RECURSIVE DepthBelow(_, _)
DepthBelow(comps, depth) ==
    IF comps = <<>> THEN depth
    ELSE IF Head(comps) = <<".", ".">>
         THEN IF depth = 0 THEN -1 ELSE DepthBelow(Tail(comps), depth - 1)
         ELSE DepthBelow(Tail(comps), depth + 1)

MaxImportLen == 4
ImportChars == {"a", "b", "/", "."}

IdlePath == pkg_import = <<>> /\ pkg_path_buf = <<>>

IdlePrompt ==
    /\ repo = None
    /\ stdin = None
    /\ versions = <<>>
    /\ reads = 0
    /\ selection = None

IdleGolang ==
    /\ repo_url = <<>>
    /\ net = None
    /\ requests = 0
    /\ resolved = None

IdleDisk ==
    /\ fs = None
    /\ log = <<>>
    /\ old_lock = None
    /\ new_lock = None
    /\ reordered = {}

InitPath ==
    /\ pc = "call get_path_from_url"
    /\ pkg_import \in SeqsUpTo(ImportChars, MaxImportLen)
    /\ pkg_path_buf = <<>>
    /\ IdlePrompt
    /\ IdleGolang
    /\ IdleDisk

GetPathFromUrl ==
    /\ pc = "call get_path_from_url"
    /\ pc' = "get_path_from_url"
    /\ pkg_path_buf' = get_path_from_url(pkg_import)
    /\ UNCHANGED <<pkg_import, promptVars, golangVars, diskVars>>

NextPath == GetPathFromUrl

SpecPath == InitPath /\ [][NextPath]_vars

\* C9: for every import identifier the returned path lies under the vendor
\* root and its components after the vendor root are exactly the identifier's
\* "/"-separated segments, in order, none dropped.
C9_PathKeepsSegments ==
    pc = "get_path_from_url" =>
        /\ Components(pkg_path_buf) = <<VENDOR_DIR>> \o Split(pkg_import)
        /\ DepthBelow(Tail(Components(pkg_path_buf)), 0) >= 0

(***************************************************************************)
(* Version Resolver.                                                       *)
(***************************************************************************)

\* str::to_lowercase on the letters the inputs are made of.
LowerChar(c) ==
    CASE c = "Q" -> "q"
      [] c = "U" -> "u"
      [] c = "I" -> "i"
      [] c = "T" -> "t"
      [] c = "X" -> "x"
      [] OTHER -> c

ToLowercase(s) == [i \in 1..Len(s) |-> LowerChar(s[i])]

Whitespace == {" ", "\n", "\t"}

\* str::trim: whitespace is removed from both ends and nowhere else.
RECURSIVE TrimStart(_)
TrimStart(s) ==
    IF s # <<>> /\ Head(s) \in Whitespace THEN TrimStart(Tail(s)) ELSE s

RECURSIVE TrimEnd(_)
TrimEnd(s) ==
    IF s # <<>> /\ s[Len(s)] \in Whitespace
    THEN TrimEnd(SubSeq(s, 1, Len(s) - 1))
    ELSE s

Trim(s) == TrimEnd(TrimStart(s))

Digits == <<"0", "1", "2", "3", "4", "5", "6", "7", "8", "9">>

DigitValue(c) == CHOOSE d \in 0..9 : Digits[d + 1] = c

IsDigit(c) == \E d \in 0..9 : Digits[d + 1] = c

RECURSIVE FoldDigits(_, _)
FoldDigits(s, acc) ==
    IF s = <<>> THEN acc
    ELSE IF ~IsDigit(Head(s)) THEN -1
    ELSE FoldDigits(Tail(s), 10 * acc + DigitValue(Head(s)))

\* str::parse::<usize>: one leading "+" is allowed and no "-"; at least one
\* digit has to follow and every character has to be a digit.  -1 stands for
\* Err.  (No input of the lengths below reaches the overflow of a usize.)
ParseUsize(s) ==
    LET digits == IF s # <<>> /\ Head(s) = "+" THEN Tail(s) ELSE s
    IN  IF digits = <<>> THEN -1 ELSE FoldDigits(digits, 0)

\* One entry of `versions`: (label, constraint string, concrete reference).
Entry(label, str, ref) == <<label, str, ref>>

\* What the function returns for an entry:
\* Some((versions[i].2, versions[i].1)).
Pick(entry) == Some(<<entry[3], entry[2]>>)

TagEntries(tag_version) ==
    IF tag_version = None THEN <<>>
    ELSE LET tag == Unwrap(tag_version)[1]
             ver == Unwrap(tag_version)[2]
         IN  << Entry("Tilde (Patch)", <<"~">> \o ver, tag),
                Entry("Caret (Minor)", <<"^">> \o ver, tag),
                Entry("Exact (Fixed)", <<"=">> \o ver, tag) >>

BranchEntries(current_branch) ==
    IF current_branch = None THEN <<>>
    ELSE LET branch_name == Unwrap(current_branch)
         IN  << Entry("Branch (HEAD)", branch_name, branch_name) >>

\* BuildVersions with the branch entry pushed before the tag entries.
BuildVersionsBranchFirst(r) ==
    BranchEntries(r.current_branch) \o TagEntries(r.tag_version)
        \o << Entry("Latest commit", Unwrap(r.latest_commit),
                                      Unwrap(r.latest_commit)) >>

BuildVersions(r) ==
    TagEntries(r.tag_version) \o BranchEntries(r.current_branch)
        \o << Entry("Latest commit", Unwrap(r.latest_commit),
                                      Unwrap(r.latest_commit)) >>

\* SelectEntry without the trim: the line feed read_line leaves stays in.
SelectEntryUntrimmed(menu, line) ==
    LET input_str == ToLowercase(line)
        index == ParseUsize(input_str)
    IN  IF input_str \in {<<"q">>, <<"q", "u", "i", "t">>} THEN None
        ELSE IF index # -1 /\ index <= Len(menu) /\ index > 0
             THEN Pick(menu[index])
             ELSE Pick(menu[Len(menu)])

\* SelectEntry without to_lowercase.
SelectEntryCaseSensitive(menu, line) ==
    LET input_str == Trim(line)
        index == ParseUsize(input_str)
    IN  IF input_str \in {<<"q">>, <<"q", "u", "i", "t">>} THEN None
        ELSE IF index # -1 /\ index <= Len(menu) /\ index > 0
             THEN Pick(menu[index])
             ELSE Pick(menu[Len(menu)])

\* The match on the line that was read (helpers.rs lines 85-97).
SelectEntry(menu, line) ==
    LET input_str == Trim(ToLowercase(line))
        index == ParseUsize(input_str)
    IN  IF input_str \in {<<"q">>, <<"q", "u", "i", "t">>} THEN None
        ELSE IF index # -1 /\ index <= Len(menu) /\ index > 0
             THEN Pick(menu[index])
             ELSE Pick(menu[Len(menu)])

MaxLineLen == 3
LineChars == {"q", "Q", "0", "1", "4", "6", "+", "-", "x", " ", "\n"}

\* Lines longer than MaxLineLen that the prompt has to tell apart.
LongLines ==
    { <<"q", "u", "i", "t">>, <<"Q", "U", "I", "T", " ">>,
      <<" ", "Q", "u", "i", "t", "\n">>, <<"q", "u", "i", "t", "x">>,
      <<"q", " ", "u", "i", "t">>, <<"\t", "4", " ", "\n">>,
      <<"+", "0", "0", "4", "\n">>, <<"1", " ", "4", "\n">> }

Lines == SeqsUpTo(LineChars, MaxLineLen) \cup LongLines

Commits == {<<"c">>}
TagVersions == {<< <<"v", "1">>, <<"1">> >>}
Branches == {<<"m">>}

Repos ==
    [ latest_commit : {Some(c) : c \in Commits} \cup {None},
      tag_version : {Some(t) : t \in TagVersions} \cup {None},
      current_branch : {Some(b) : b \in Branches} \cup {None} ]

\* read_line either gives a line or fails.
ReadOutcomes ==
    {[ok |-> TRUE, line |-> l] : l \in Lines} \cup {[ok |-> FALSE, line |-> <<>>]}

InitPrompt ==
    /\ pc = "call version_prompt"
    /\ repo \in Repos
    /\ stdin \in ReadOutcomes
    /\ versions = <<>>
    /\ reads = 0
    /\ selection = None
    /\ IdlePath
    /\ IdleGolang
    /\ IdleDisk

VersionPrompt ==
    /\ pc = "call version_prompt"
    /\ pc' = "version_prompt"
    /\ IF repo.latest_commit = None
       THEN /\ selection' = None
            /\ UNCHANGED <<versions, reads>>
       ELSE IF repo.tag_version = None /\ repo.current_branch = None
       THEN /\ selection' = Some(<<Unwrap(repo.latest_commit),
                                    Unwrap(repo.latest_commit)>>)
            /\ UNCHANGED <<versions, reads>>
       ELSE /\ versions' = BuildVersions(repo)
            /\ reads' = reads + 1
            /\ selection' = IF stdin.ok
                            THEN SelectEntry(BuildVersions(repo), stdin.line)
                            ELSE None
    /\ UNCHANGED <<repo, stdin, pathVars, golangVars, diskVars>>

NextPrompt == VersionPrompt

SpecPrompt == InitPrompt /\ [][NextPrompt]_vars

Prompted == pc = "version_prompt" /\ reads = 1

Canonical(line) == Trim(ToLowercase(line))

QuitWords == {<<"q">>, <<"q", "u", "i", "t">>}

\* t is a decimal numeral of k, for 1 <= k <= 9: the digit of k, after any
\* number of zeros, after at most one "+".
IsNumeralOf(t, k) ==
    /\ Len(t) >= 1
    /\ t[Len(t)] = Digits[k + 1]
    /\ \A i \in 1..(Len(t) - 1) : t[i] = "0" \/ (i = 1 /\ t[i] = "+")

\* C2: a line that is not q/quit selects entry k when it is a numeral of some
\* k in 1..N, and the last entry (the latest commit) in every other case.
C2_SelectOrDefault ==
    (Prompted /\ stdin.ok /\ Canonical(stdin.line) \notin QuitWords) =>
        LET N == Len(versions)
            t == Canonical(stdin.line)
        IN  /\ \A k \in 1..N : IsNumeralOf(t, k) => selection = Pick(versions[k])
            /\ (~ \E k \in 1..N : IsNumeralOf(t, k)) =>
                   /\ selection = Pick(versions[N])
                   /\ versions[N][1] = "Latest commit"

C2_Witness_InRange ==
    /\ Prompted /\ stdin.ok
    /\ Len(versions) = 5
    /\ Canonical(stdin.line) = <<"4">>
    /\ selection = Some(<< <<"m">>, <<"m">> >>)

\* The prompt is reached: there is a commit, and a tag or a branch.
Asks(r) ==
    /\ r.latest_commit # None
    /\ r.tag_version # None \/ r.current_branch # None

\* C6 as stated: no selection exactly when there is no latest commit or the
\* entered line is q/quit.
C6_NoSelectionIffQuitOrNoCommit ==
    pc = "version_prompt" =>
        /\ selection = None <=>
              \/ repo.latest_commit = None
              \/ Asks(repo) /\ stdin.ok /\ Canonical(stdin.line) \in QuitWords
        /\ selection # None => Len(Unwrap(selection)) = 2

\* C6 amended: a failed read of the line also gives no selection.
C6_NoSelectionIffQuitNoCommitOrReadError ==
    pc = "version_prompt" =>
        /\ selection = None <=>
              \/ repo.latest_commit = None
              \/ Asks(repo) /\ ~stdin.ok
              \/ Asks(repo) /\ stdin.ok /\ Canonical(stdin.line) \in QuitWords
        /\ selection # None => Len(Unwrap(selection)) = 2

C6_Witness_QuitUpperPadded ==
    /\ Prompted /\ stdin.ok
    /\ stdin.line = <<"Q", "U", "I", "T", " ">>
    /\ selection = None

\* The menu the claim describes, entry by entry.
ExpectedMenu(r) ==
    LET tagged == r.tag_version # None
        branched == r.current_branch # None
        tag == Unwrap(r.tag_version)[1]
        ver == Unwrap(r.tag_version)[2]
        name == Unwrap(r.current_branch)
        commit == Unwrap(r.latest_commit)
        versioned == << <<"Tilde (Patch)", <<"~">> \o ver, tag>>,
                        <<"Caret (Minor)", <<"^">> \o ver, tag>>,
                        <<"Exact (Fixed)", <<"=">> \o ver, tag>> >>
        branch == << <<"Branch (HEAD)", name, name>> >>
        latest == << <<"Latest commit", commit, commit>> >>
    IN  CASE tagged /\ branched -> versioned \o branch \o latest
          [] tagged /\ ~branched -> versioned \o latest
          [] ~tagged /\ branched -> branch \o latest
          [] OTHER -> <<>>

\* C7: with a latest commit the menu is Tilde, Caret, Exact (iff a tag), Branch
\* (iff a branch), Latest commit (always, last); 5 entries with tag and branch;
\* with neither, no menu, no read, and the result is (commit, commit).
C7_MenuOrder ==
    (pc = "version_prompt" /\ repo.latest_commit # None) =>
        /\ versions = ExpectedMenu(repo)
        /\ (repo.tag_version # None /\ repo.current_branch # None) =>
               Len(versions) = 5
        /\ (repo.tag_version = None /\ repo.current_branch = None) =>
               /\ versions = <<>>
               /\ reads = 0
               /\ selection = Some(<<Unwrap(repo.latest_commit),
                                      Unwrap(repo.latest_commit)>>)
        /\ (repo.tag_version # None \/ repo.current_branch # None) =>
               /\ reads = 1
               /\ versions[Len(versions)][1] = "Latest commit"

C7_Witness_FullMenu ==
    /\ pc = "version_prompt"
    /\ Len(versions) = 5
    /\ versions[4][1] = "Branch (HEAD)"
    /\ versions[1][2] = <<"~", "1">>

(***************************************************************************)
(* Vanity Import Resolver.                                                 *)
(***************************************************************************)

Range(f) == {f[x] : x \in DOMAIN f}

\* The largest element of a non-empty set of integers.
Max(S) == CHOOSE x \in S : \A y \in S : y <= x

Min(S) == CHOOSE x \in S : \A y \in S : x <= y

\* `.` of the regex crate: any character but a line feed.
NoNewline(b, from, to) == \A k \in from..to : b[k] # "\n"

\* `[^'"]`.
NoQuote(b, from, to) == \A k \in from..to : b[k] \notin {"'", "\""}

At(b, k, c) == k >= 1 /\ k <= Len(b) /\ b[k] = c

\* `"?'?>` matches at position p.
ClosingAt(b, p) ==
    \E dq \in {0, 1}, sq \in {0, 1} :
        /\ dq = 1 => At(b, p, "\"")
        /\ sq = 1 => At(b, p + dq, "'")
        /\ At(b, p + dq + sq, ">")

\* The ends e of a capture `([^'"]*)` starting after position j that the rest
\* of the pattern accepts.
CaptureEnds(b, j) ==
    {e \in j..Len(b) : NoQuote(b, j + 1, e) /\ ClosingAt(b, e + 1)}

\* The positions of " git " that `.* git ` can reach from after position i.
GitAts(b, i) ==
    {j \in (i + 1)..Len(b) :
        /\ NoNewline(b, i + 1, j - 1)
        /\ b[j] = " git "
        /\ CaptureEnds(b, j) # {}}

\* The positions of "go-import" that `.*go-import` can reach from position s.
GoImportAts(b, s) ==
    {i \in s..Len(b) :
        /\ NoNewline(b, s, i - 1)
        /\ b[i] = "go-import"
        /\ GitAts(b, i) # {}}

\* Regex `.*go-import.* git ([^'"]*)"?'?>`, captures(body).get(1): the match
\* starts at the leftmost position where one exists, and each `*` takes the
\* most it can while the rest still matches.
CapturesGoImport(body) ==
    LET starts == {s \in 1..Len(body) : GoImportAts(body, s) # {}}
    IN  IF starts = {} THEN None
        ELSE LET i == Max(GoImportAts(body, Min(starts)))
                 j == Max(GitAts(body, i))
                 e == Max(CaptureEnds(body, j))
             IN  Some(SubSeq(body, j + 1, e))

\* Where a run of characters other than "/" starting at k stops.
RECURSIVE SkipNoSlash(_, _)
SkipNoSlash(u, k) ==
    IF k <= Len(u) /\ u[k] # "/" THEN SkipNoSlash(u, k + 1) ELSE k

\* `[^/]*//[^/]*/` matches from position s: the position after it, or 0.
PrefixEnd(u, s) ==
    LET a == SkipNoSlash(u, s)
    IN  IF ~(At(u, a, "/") /\ At(u, a + 1, "/")) THEN 0
        ELSE LET c == SkipNoSlash(u, a + 2)
             IN  IF At(u, c, "/") THEN c + 1 ELSE 0

\* `(.*)`: up to the next line feed.
RECURSIVE SkipNoNewline(_, _)
SkipNoNewline(u, k) ==
    IF k <= Len(u) /\ u[k] # "\n" THEN SkipNoNewline(u, k + 1) ELSE k

\* Regex `[^/]*//[^/]*/(.*)`, captures(url).get(1).
CapturesSuffix(url) ==
    LET starts == {s \in 1..(Len(url) + 1) : PrefixEnd(url, s) # 0}
    IN  IF starts = {} THEN None
        ELSE LET from == PrefixEnd(url, Min(starts))
             IN  Some(SubSeq(url, from, SkipNoNewline(url, from) - 1))

\* repo_url.starts_with("golang.org/x")
InNamespace(url) == url # <<>> /\ Head(url) = "golang.org/x"

\* The fallback without the scheme put in front.
FallbackNoScheme(url) == <<url, None>>

\* (format!("http://{}", repo_url), None)
Fallback(url) == << <<"http://">> \o url, None >>

\* The part of modify_golang_org after the transfer (helpers.rs 225-251).
ResolveBody(url, body) ==
    LET cap == CapturesGoImport(body)
    IN  IF cap = None THEN Fallback(url)
        ELSE LET found == Unwrap(cap)
                 suffix == CapturesSuffix(found)
             IN  IF suffix = None THEN <<found, None>>
                 ELSE <<found, Some(<<"golang.org/x", "/">> \o Unwrap(suffix))>>

MaxUrlLen == 4
UrlChars == {"u", "/"}

BodyHeads ==
    { <<>>, <<"x">>, <<"go-import">>, <<"go-import", "x">>,
      <<"go-import", "\n">>, <<"go-import", " git ", "u", ">", "\n", "go-import">> }
BodyGits == { <<>>, <<" git ">> }
BodyCloses ==
    { <<>>, <<">">>, <<"\"">>, <<"\"", ">">>, <<"'", ">">>,
      <<"\"", "'", ">">>, <<"'", "\"", ">">> }
BodyTails == { <<>>, <<">">>, <<"x", ">">> }

Bodies ==
    { h \o g \o u \o c \o t :
        h \in BodyHeads, g \in BodyGits, u \in SeqsUpTo(UrlChars, MaxUrlLen),
        c \in BodyCloses, t \in BodyTails }

RepoUrls ==
    { <<"golang.org/x", "/", "n">>, <<"golang.org/x">>, <<"golang.org/x", "y">>,
      <<"g", "/", "n">>, <<"http://", "golang.org/x", "/", "n">> }

\* How the client behaves: handle.url fails, write_function fails, perform
\* fails (a transfer error, or the write callback giving up on bytes that are
\* not UTF-8), or the body arrives.
NetOutcomes ==
    { [step |-> e, body |-> <<>>] : e \in {"url", "write_function", "perform"} }
        \cup { [step |-> "ok", body |-> b] : b \in Bodies }

InitGolang ==
    /\ pc = "call modify_golang_org"
    /\ repo_url \in RepoUrls
    /\ net \in NetOutcomes
    /\ requests = 0
    /\ resolved = None
    /\ IdlePath
    /\ IdlePrompt
    /\ IdleDisk

ModifyGolangOrg ==
    /\ pc = "call modify_golang_org"
    /\ pc' = "modify_golang_org"
    /\ IF ~InNamespace(repo_url)
       THEN /\ resolved' = Fallback(repo_url)
            /\ UNCHANGED requests
       ELSE IF net.step \in {"url", "write_function"}
       THEN /\ resolved' = Fallback(repo_url)
            /\ UNCHANGED requests
       ELSE IF net.step = "perform"
       THEN /\ resolved' = Fallback(repo_url)
            /\ requests' = requests + 1
       ELSE /\ resolved' = ResolveBody(repo_url, net.body)
            /\ requests' = requests + 1
    /\ UNCHANGED <<repo_url, net, pathVars, promptVars, diskVars>>

NextGolang == ModifyGolangOrg

SpecGolang == InitGolang /\ [][NextGolang]_vars

Resolved == pc = "modify_golang_org" /\ InNamespace(repo_url)

\* The body has a go-import marker, but the URL in it has no
\* scheme://host/suffix shape.
SuffixMismatch ==
    /\ net.step = "ok"
    /\ CapturesGoImport(net.body) # None
    /\ CapturesSuffix(Unwrap(CapturesGoImport(net.body))) = None

\* C5 as stated: inside golang.org/x, a failure of any step (URL setup or
\* transfer, no go-import marker, a mismatch while extracting from the matched
\* URL) gives exactly the fallback, with no retry.
C5_EveryFailureFallsBack ==
    Resolved =>
        /\ ( \/ net.step # "ok"
             \/ CapturesGoImport(net.body) = None
             \/ SuffixMismatch ) => resolved = Fallback(repo_url)
        /\ requests <= 1

\* C5 amended: URL setup, transfer and missing-marker failures give the
\* fallback; a matched URL without a suffix is returned as (that URL, None).
C5_FailureFallsBackOrKeepsUrl ==
    Resolved =>
        /\ (net.step # "ok" \/ CapturesGoImport(net.body) = None) =>
               resolved = << <<"http://">> \o repo_url, None >>
        /\ SuffixMismatch =>
               /\ resolved = <<Unwrap(CapturesGoImport(net.body)), None>>
               /\ resolved # << <<"http://">> \o repo_url, None >>
        /\ requests <= 1
        /\ Len(resolved) = 2

C5_Witness_NoMarker ==
    /\ Resolved
    /\ net.step = "ok"
    /\ net.body = <<"go-import", "x", "u", "/", "/", "u", "\"", ">">>
    /\ requests = 1
    /\ resolved = << <<"http://">> \o repo_url, None >>

(***************************************************************************)
(* The vendor tree on disk.  A path is the list of its components; a tree  *)
(* is the set of directories that exist, those of them that hold regular   *)
(* files, and those the process is not allowed to delete.  A recursive     *)
(* deletion is all or nothing: it fails, before deleting anything, when    *)
(* its target is missing or something in it may not be deleted.            *)
(***************************************************************************)

IsPrefix(p, q) == Len(p) <= Len(q) /\ SubSeq(q, 1, Len(p)) = p

IsStrictPrefix(p, q) == IsPrefix(p, q) /\ Len(p) < Len(q)

\* p and everything below it.
Subtree(tree, p) == {d \in tree.dirs : IsPrefix(p, d)}

\* Path::parent: "vendor/a" gives Some("vendor"), "vendor" gives Some(""),
\* and "" gives None.
Parent(p) == IF p = <<>> THEN None ELSE Some(SubSeq(p, 1, Len(p) - 1))

\* fs::remove_dir_all(p).
RemoveDirAll(tree, p) ==
    IF p \notin tree.dirs \/ Subtree(tree, p) \cap tree.denied # {}
    THEN [ok |-> FALSE, tree |-> tree]
    ELSE [ok |-> TRUE,
          tree |-> [dirs |-> tree.dirs \ Subtree(tree, p),
                    files |-> tree.files \ Subtree(tree, p),
                    denied |-> tree.denied]]

\* A remove_dir that also deletes a directory holding only files.
RemoveDirIgnoringFiles(tree, p) ==
    IF \/ p \notin tree.dirs
       \/ \E d \in tree.dirs : IsStrictPrefix(p, d)
       \/ p \in tree.denied
    THEN [ok |-> FALSE, tree |-> tree]
    ELSE [ok |-> TRUE,
          tree |-> [dirs |-> tree.dirs \ {p},
                    files |-> tree.files \ {p},
                    denied |-> tree.denied \ {p}]]

\* fs::remove_dir(p): only a directory that exists, is empty and may be
\* deleted is removed.  The empty path names nothing.
RemoveDir(tree, p) ==
    IF \/ p \notin tree.dirs
       \/ p \in tree.files
       \/ \E d \in tree.dirs : IsStrictPrefix(p, d)
       \/ p \in tree.denied
    THEN [ok |-> FALSE, tree |-> tree]
    ELSE [ok |-> TRUE,
          tree |-> [dirs |-> tree.dirs \ {p},
                    files |-> tree.files,
                    denied |-> tree.denied \ {p}]]

\* The while loop of remove_package (helpers.rs 183-188).
RECURSIVE PruneParents(_, _)
PruneParents(tree, parent) ==
    IF parent = None THEN tree
    ELSE LET r == RemoveDir(tree, Unwrap(parent))
         IN  IF r.ok THEN PruneParents(r.tree, Parent(Unwrap(parent)))
             ELSE tree

\* The directory remove_package works on, as the system resolves the string
\* get_path_from_url builds.
PackageDir(dir_path) == Components(get_path_from_url(dir_path))

\* A remove_package that prunes the parents also after a failed deletion.
remove_package_pruning_on_error(tree, dir_path) ==
    LET pkg_path == PackageDir(dir_path)
        r == RemoveDirAll(tree, pkg_path)
    IN  [ok |-> r.ok,
         tree |-> PruneParents(r.tree, Parent(pkg_path)),
         logged |-> [level |-> IF r.ok THEN "verbose" ELSE "error",
                     import |-> dir_path]]

\* remove_package: the tree it leaves, what it returns and what it logs.
remove_package(tree, dir_path) ==
    LET pkg_path == PackageDir(dir_path)
        r == RemoveDirAll(tree, pkg_path)
    IN  IF r.ok
        THEN [ok |-> TRUE,
              tree |-> PruneParents(r.tree, Parent(pkg_path)),
              logged |-> [level |-> "verbose", import |-> dir_path]]
        ELSE [ok |-> FALSE,
              tree |-> tree,
              logged |-> [level |-> "error", import |-> dir_path]]

\* One line of the log, with the tree before and after the call it is about.
LogLine(result, before) ==
    [level |-> result.logged.level, import |-> result.logged.import,
     before |-> before, after |-> result.tree]

Root == <<VENDOR_DIR>>

\* A directory of the project beside the vendor root.
Beside == << <<"s">> >>

ImportABC == <<"a", "/", "b", "/", "c">>
ImportAB == <<"a", "/", "b">>
ImportAD == <<"a", "/", "d">>
ImportE == <<"e">>

Imports == {ImportABC, ImportAB, ImportAD, ImportE}

\* The non-empty prefixes of a path.
Prefixes(p) == {SubSeq(p, 1, k) : k \in 1..Len(p)}

SubsetsUpTo(S, n) == {T \in SUBSET S : Cardinality(T) <= n}

MaxStray == 1
MaxDenied == 1

\* The trees: the vendor root and the directory beside it, the directories of
\* the packages on disk (each holding files) with their ancestors, files in
\* up to maxStray further directories, and up to maxDenied directories that
\* may not be deleted.
TreesWith(maxStray, maxDenied) ==
    { [dirs |-> inVendor \cup {Beside},
       files |-> onDisk \cup stray \cup {Beside},
       denied |-> denied] :
        <<onDisk, inVendor, stray, denied>> \in
            { <<o, v, st, de>> \in
                  (SUBSET {PackageDir(i) : i \in Imports})
                      \X (SUBSET (UNION {Prefixes(PackageDir(i)) : i \in Imports}))
                      \X SubsetsUpTo(UNION {Prefixes(PackageDir(i)) : i \in Imports}, maxStray)
                      \X SubsetsUpTo(UNION {Prefixes(PackageDir(i)) : i \in Imports}, maxDenied) :
                /\ v = {Root} \cup UNION {Prefixes(q) : q \in o}
                /\ st \subseteq v \ o
                /\ de \subseteq v } }

Trees == TreesWith(MaxStray, MaxDenied)

MaxCalls == 2

InitRemove ==
    /\ pc = "call remove_package"
    /\ fs \in Trees
    /\ log = <<>>
    /\ old_lock = None
    /\ new_lock = None
    /\ reordered = {}
    /\ IdlePath
    /\ IdlePrompt
    /\ IdleGolang

RemovePackage(dir_path) ==
    /\ pc \in {"call remove_package", "remove_package"}
    /\ Len(log) < MaxCalls
    /\ pc' = "remove_package"
    /\ LET result == remove_package(fs, dir_path)
       IN  /\ fs' = result.tree
           /\ log' = Append(log, LogLine(result, fs))
    /\ UNCHANGED <<old_lock, new_lock, reordered, pathVars, promptVars,
                   golangVars>>

NextRemove == \E dir_path \in Imports : RemovePackage(dir_path)

SpecRemove == InitRemove /\ [][NextRemove]_vars

\* The ancestors of a directory that are directories themselves.
Ancestors(p) == Prefixes(p) \ {p}

\* Ancestor A of p can be removed once p and every ancestor below A is gone:
\* it holds no files, may be deleted, and all that is below it is in p or on
\* the way to p.
Removable(before, p, A) ==
    /\ A \in before.dirs
    /\ A \notin before.files
    /\ A \notin before.denied
    /\ \A d \in before.dirs :
           IsStrictPrefix(A, d) => IsPrefix(p, d) \/ IsStrictPrefix(d, p)

\* The ancestors that are pruned: the nearest ones, up to the first that
\* cannot be removed.
Pruned(before, p) ==
    { A \in Ancestors(p) :
        \A B \in Ancestors(p) : Len(B) >= Len(A) => Removable(before, p, B) }

\* C3: a successful remove_package removes the package directory and then its
\* ancestors from the nearest upward, each only if empty, stopping at the first
\* that cannot be removed; every directory above stays, and no directory that
\* still contains another package is removed.
C3_PruneEmptyAncestors ==
    \A n \in 1..Len(log) :
        log[n].level = "verbose" =>
            LET p == PackageDir(log[n].import)
                before == log[n].before
                after == log[n].after
            IN  /\ after.dirs = before.dirs \ (Subtree(before, p) \cup Pruned(before, p))
                /\ after.files = before.files \ Subtree(before, p)
                /\ \A d \in after.dirs : Ancestors(d) \subseteq after.dirs
                /\ \A q \in before.files : ~IsPrefix(p, q) => q \in after.dirs

\* Removing a/b/c while a/d exists removes a/b/c and a/b and leaves a.
C3_Witness_SiblingKeepsParent ==
    /\ pc = "remove_package"
    /\ Len(log) = 1
    /\ log[1].level = "verbose"
    /\ log[1].import = ImportABC
    /\ PackageDir(ImportAD) \in fs.dirs
    /\ PackageDir(ImportAB) \in log[1].before.dirs
    /\ PackageDir(ImportAB) \notin fs.dirs
    /\ PackageDir(ImportABC) \notin fs.dirs
    /\ <<VENDOR_DIR, <<"a">> >> \in fs.dirs

\* C10: after any sequence of package removals the vendor root still exists,
\* and no directory outside the vendor tree has been removed.
C10_VendorRootKept ==
    /\ pc = "remove_package" => Root \in fs.dirs
    /\ pc = "remove_package" => Beside \in fs.dirs

(***************************************************************************)
(* Lock Reconciler.  A lock is null (None) or an object whose "git" and    *)
(* "local" members are null or arrays; an array element is Some(name) when *)
(* the code's as_str() finds a string in it and None when it does not.     *)
(***************************************************************************)

\* &lock[key]: indexing null gives null.
Member(lock, key) ==
    IF lock = None THEN None
    ELSE IF key = "git" THEN Unwrap(lock).git ELSE Unwrap(lock).local

\* The elements the loops run over: len() of null is 0.
Elements(member) == IF member = None THEN <<>> ELSE Unwrap(member)

\* The inner loop: is old_pkg_name found among the new entries from j on?
RECURSIVE FoundIn(_, _, _)
FoundIn(new_list, j, old_pkg_name) ==
    IF j > Len(new_list) THEN FALSE
    ELSE IF new_list[j] = None THEN FoundIn(new_list, j + 1, old_pkg_name)
    ELSE IF old_pkg_name = Unwrap(new_list[j]) THEN TRUE
    ELSE FoundIn(new_list, j + 1, old_pkg_name)

\* An outer loop that gives up at the first package it cannot delete.
RECURSIVE RemoveMissingUntilError(_, _, _, _)
RemoveMissingUntilError(old_list, new_list, i, state) ==
    IF i > Len(old_list) THEN state
    ELSE IF old_list[i] = None
         THEN RemoveMissingUntilError(old_list, new_list, i + 1, state)
    ELSE IF FoundIn(new_list, 1, Unwrap(old_list[i]))
         THEN RemoveMissingUntilError(old_list, new_list, i + 1, state)
    ELSE LET result == remove_package(state.tree, Unwrap(old_list[i]))
             next == [tree |-> result.tree,
                      log |-> Append(state.log, LogLine(result, state.tree))]
         IN  IF result.ok
             THEN RemoveMissingUntilError(old_list, new_list, i + 1, next)
             ELSE next

\* One of the two outer loops, from element i on: state is the tree and the
\* log so far.
RECURSIVE RemoveMissing(_, _, _, _)
RemoveMissing(old_list, new_list, i, state) ==
    IF i > Len(old_list) THEN state
    ELSE IF old_list[i] = None
         THEN RemoveMissing(old_list, new_list, i + 1, state)
    ELSE IF FoundIn(new_list, 1, Unwrap(old_list[i]))
         THEN RemoveMissing(old_list, new_list, i + 1, state)
    ELSE LET result == remove_package(state.tree, Unwrap(old_list[i]))
         IN  RemoveMissing(old_list, new_list, i + 1,
                 [tree |-> result.tree,
                  log |-> Append(state.log, LogLine(result, state.tree))])

remove_diff_packages(old, new, tree) ==
    LET start == [tree |-> tree, log |-> <<>>]
    IN  IF old = None THEN start
        ELSE LET afterGit ==
                     IF Member(old, "git") = None THEN start
                     ELSE RemoveMissing(Elements(Member(old, "git")),
                                        Elements(Member(new, "git")), 1, start)
             IN  IF Member(old, "local") = None THEN afterGit
                 ELSE RemoveMissing(Elements(Member(old, "local")),
                                    Elements(Member(new, "local")), 1, afterGit)

\* The sequences without repetition over S of length at most n.
RECURSIVE Listings(_, _)
Listings(S, n) ==
    IF n = 0 THEN {<<>>}
    ELSE LET shorter == Listings(S, n - 1)
         IN  shorter \cup
             {Append(l, x) : <<l, x>> \in
                 {<<l, x>> \in shorter \X S : \A k \in 1..Len(l) : l[k] # x}}

\* The orders the elements of a list can be listed in.
Orders(list) ==
    {[k \in 1..Len(list) |-> list[f[k]]] :
        f \in {g \in [1..Len(list) -> 1..Len(list)] :
                  \A a, b \in 1..Len(list) : g[a] = g[b] => a = b}}

\* The same lock with the entries of each partition listed in another order.
Reorderings(lock) ==
    IF lock = None THEN {None}
    ELSE {Some([git |-> g, local |-> l]) :
             g \in (IF Member(lock, "git") = None THEN {None}
                    ELSE {Some(o) : o \in Orders(Elements(Member(lock, "git")))}),
             l \in (IF Member(lock, "local") = None THEN {None}
                    ELSE {Some(o) : o \in Orders(Elements(Member(lock, "local")))})}

MaxOld == 2
MaxNew == 1

Names == {Some(i) : i \in Imports}

Lock(g, l) == Some([git |-> Some(g), local |-> Some(l)])

\* Locks whose entries are all well formed, with at most n entries.
Locks(n) ==
    {Lock(g, l) : <<g, l>> \in
        {<<g, l>> \in Listings(Names, n) \X Listings(Names, n) :
            Len(g) + Len(l) <= n}}

\* Locks with a member missing or an entry that holds no string, and the
\* larger locks of the reconciler's examples.
SampleLocks ==
    { None,
      Some([git |-> None, local |-> Some(<<Some(ImportE), Some(ImportAD)>>)]),
      Some([git |-> Some(<<Some(ImportABC), Some(ImportE)>>), local |-> None]),
      Lock(<<None, Some(ImportAD), Some(ImportE)>>, <<None, Some(ImportAB)>>),
      Lock(<<Some(ImportE), None>>, <<Some(ImportABC), None, Some(ImportAD)>>),
      Lock(<<Some(ImportE), Some(ImportAD)>>, <<Some(ImportAB)>>),
      Lock(<<Some(ImportE)>>, <<Some(ImportAB), Some(ImportABC)>>),
      Lock(<<Some(ImportAD), Some(ImportABC), Some(ImportE)>>, <<Some(ImportAB)>>) }

\* The inner loop only asks whether a name is listed, so of the new locks one
\* listing of every set of entries is taken: the one in this order.
ImportOrder == <<Some(ImportABC), Some(ImportAB), Some(ImportAD), Some(ImportE)>>

Rank(name) == CHOOSE k \in 1..Len(ImportOrder) : ImportOrder[k] = name

InOrder(list) == \A k \in 1..(Len(list) - 1) : Rank(list[k]) < Rank(list[k + 1])

NewLocks ==
    {lock \in Locks(MaxNew) :
        /\ InOrder(Elements(Member(lock, "git")))
        /\ InOrder(Elements(Member(lock, "local")))}

\* The trees the reconciler starts from: only package directories are ever
\* undeletable.
DiffTrees == {t \in TreesWith(0, MaxDenied) : t.denied \subseteq t.files}

InitDiff ==
    /\ pc = "call remove_diff_packages"
    /\ fs \in DiffTrees
    /\ log = <<>>
    /\ old_lock \in Locks(MaxOld) \cup SampleLocks
    /\ new_lock \in NewLocks \cup SampleLocks
    /\ reordered = {}
    /\ IdlePath
    /\ IdlePrompt
    /\ IdleGolang

RemoveDiffPackages ==
    /\ pc = "call remove_diff_packages"
    /\ pc' = "remove_diff_packages"
    /\ LET result == remove_diff_packages(old_lock, new_lock, fs)
       IN  /\ fs' = result.tree
           /\ log' = result.log
    /\ reordered' = {remove_diff_packages(o, new_lock, fs).tree.dirs :
                        o \in Reorderings(old_lock)}
    /\ UNCHANGED <<old_lock, new_lock, pathVars, promptVars, golangVars>>

NextDiff == RemoveDiffPackages

SpecDiff == InitDiff /\ [][NextDiff]_vars

Reconciled == pc = "remove_diff_packages"

\* The names a partition of a lock lists.
NamesOf(lock, key) ==
    {Unwrap(e) : e \in {x \in Range(Elements(Member(lock, key))) : x # None}}

\* The names of a partition of the old lock that the same partition of the
\* new lock does not list.
OnlyOld(key) == NamesOf(old_lock, key) \ NamesOf(new_lock, key)

\* The tree remove_diff_packages started from.
InitialTree == IF log = <<>> THEN fs ELSE log[1].before

\* The names of the old partition that are to be removed, in the order listed.
ToRemove(key) ==
    LET kept == SelectSeq(Elements(Member(old_lock, key)),
                          LAMBDA e : e # None /\ Unwrap(e) \notin NamesOf(new_lock, key))
    IN  [k \in 1..Len(kept) |-> Unwrap(kept[k])]

\* C1: when every deletion succeeds, the directories removed are exactly those
\* of the identifiers in the old git partition and not the new one, or in the
\* old local partition and not the new one; the directory of every entry of
\* the new snapshot, in either partition, still exists afterwards.
C1_RemovesExactlyTheDifference ==
    (Reconciled /\ \A n \in 1..Len(log) : log[n].level = "verbose") =>
        /\ \A i \in NamesOf(old_lock, "git") \cup NamesOf(old_lock, "local")
                     \cup NamesOf(new_lock, "git") \cup NamesOf(new_lock, "local") :
               (PackageDir(i) \in InitialTree.dirs /\ PackageDir(i) \notin fs.dirs)
                   <=> i \in OnlyOld("git") \cup OnlyOld("local")
        /\ \A i \in NamesOf(new_lock, "git") \cup NamesOf(new_lock, "local") :
               PackageDir(i) \in InitialTree.dirs => PackageDir(i) \in fs.dirs

C8_OrderIndependent ==
    Reconciled => reordered = {fs.dirs}

\* Packages that share ancestors are listed in one partition and a package that
\* contains one of them in the other; all are removed, with their ancestors.
C8_Witness_NestedReordered ==
    /\ Reconciled
    /\ Cardinality(Reorderings(old_lock)) >= 6
    /\ {ImportABC, ImportAD, ImportE} \subseteq OnlyOld("git")
    /\ ImportAB \in OnlyOld("local")
    /\ {PackageDir(i) : i \in Imports} \subseteq InitialTree.dirs
    /\ <<VENDOR_DIR, <<"a">> >> \notin fs.dirs
    /\ \A n \in 1..Len(log) : log[n].level = "verbose"

(***************************************************************************)
(* The helpers together: any one of them is called on inputs of its own.   *)
(***************************************************************************)

Init == InitPath \/ InitPrompt \/ InitGolang \/ InitRemove \/ InitDiff

Next == NextPath \/ NextPrompt \/ NextGolang \/ NextRemove \/ NextDiff

Spec == Init /\ [][Next]_vars

=============================================================================
